---------------------------- MODULE Spec2Model ----------------------------
(***************************************************************************)
(* Model of src/dynamic-tensor/12332.c: a 2-D tensor container with three  *)
(* storage types, the float32 <-> float16 bit-level codec, and the linear  *)
(* int8 quantizer / dequantizer.                                           *)
(*                                                                         *)
(* A 32-bit word (uint32_t, and the bit pattern of a float) is a record    *)
(* [hi, lo] of two 16-bit halves, because the model checker's integers     *)
(* are 32-bit signed.  A float is always carried as its bit pattern.       *)
(***************************************************************************)
EXTENDS Integers, Sequences, FiniteSets, TLC

VARIABLES
    \* ---- codec harness (float32_to_float16 / float16_to_float32)
    f0,        \* the float32 bit pattern the harness started from
    h0,        \* the uint16_t pattern the harness started from
    fval,      \* the current float32 bit pattern
    hval,      \* the current uint16_t half pattern
    ctrace,    \* the codec calls made so far, in order
    \* ---- quantizer (main's three tensors)
    input, quantized, dequantized, scale, qpc,
    \* ---- allocator (create_tensor / free_tensor)
    heap,      \* the blocks malloc has handed out and free has not taken back
    handles    \* what the create_tensor calls returned, in order

vars == <<f0, h0, fval, hval, ctrace, input, quantized, dequantized, scale,
          qpc, heap, handles>>

codecVars == <<f0, h0, fval, hval, ctrace>>
quantVars == <<input, quantized, dequantized, scale, qpc>>
allocVars == <<heap, handles>>

(***************************************************************************)
(* Fixed-width integers and bit operations.                                *)
(***************************************************************************)
Two16 == 256 * 256
Two15 == 128 * 256

\* 2^n for n in 0 .. 30.
Pow2(n) ==
    << 1, 2, 4, 8, 16, 32, 64, 128, 256, 512, 1024, 2048, 4096, 8192, 16384,
       32768, 65536, 131072, 262144, 524288, 1048576, 2097152, 4194304,
       8388608, 16777216, 33554432, 67108864, 134217728, 268435456,
       536870912, 1073741824 >>[n + 1]

\* Bit i of a natural.
Bit(a, i) == (a \div Pow2(i)) % 2

\* Bitwise AND / OR of two naturals below 16, bit by bit.
And4(a, b) ==
    Bit(a, 0) * Bit(b, 0) + 2 * (Bit(a, 1) * Bit(b, 1))
    + 4 * (Bit(a, 2) * Bit(b, 2)) + 8 * (Bit(a, 3) * Bit(b, 3))
OrBit(x, y) == x + y - x * y
Or4(a, b) ==
    OrBit(Bit(a, 0), Bit(b, 0)) + 2 * OrBit(Bit(a, 1), Bit(b, 1))
    + 4 * OrBit(Bit(a, 2), Bit(b, 2)) + 8 * OrBit(Bit(a, 3), Bit(b, 3))

\* The i-th group of four bits.
Nibble(a, i) == (a \div Pow2(4 * i)) % 16

\* Bitwise AND / OR of two uint16_t values.
And16(a, b) ==
    And4(Nibble(a, 0), Nibble(b, 0)) + 16 * And4(Nibble(a, 1), Nibble(b, 1))
    + 256 * And4(Nibble(a, 2), Nibble(b, 2))
    + 4096 * And4(Nibble(a, 3), Nibble(b, 3))
Or16(a, b) ==
    Or4(Nibble(a, 0), Nibble(b, 0)) + 16 * Or4(Nibble(a, 1), Nibble(b, 1))
    + 256 * Or4(Nibble(a, 2), Nibble(b, 2))
    + 4096 * Or4(Nibble(a, 3), Nibble(b, 3))

\* uint32_t values.
W32(h, l) == [hi |-> h, lo |-> l]
U32(n)    == W32(0, n)                     \* a constant below 2^16
And32(a, b) == W32(And16(a.hi, b.hi), And16(a.lo, b.lo))
Or32(a, b)  == W32(Or16(a.hi, b.hi), Or16(a.lo, b.lo))

\* w >> n and w << n for 0 <= n < 32; bits shifted out are lost.
Shr32(w, n) ==
    IF n >= 16 THEN W32(0, w.hi \div Pow2(n - 16))
    ELSE W32(w.hi \div Pow2(n),
             (w.hi % Pow2(n)) * Pow2(16 - n) + w.lo \div Pow2(n))

Shl32(w, n) ==
    IF n >= 16 THEN W32((w.lo % Pow2(32 - n)) * Pow2(n - 16), 0)
    ELSE W32((w.hi % Pow2(16 - n)) * Pow2(n) + w.lo \div Pow2(16 - n),
             (w.lo % Pow2(16 - n)) * Pow2(n))

\* w + k and w - k modulo 2^32, for 0 <= k < 2^16.
Add32(w, k) ==
    LET l == w.lo + k
    IN  W32((w.hi + l \div Two16) % Two16, l % Two16)
Sub32(w, k) ==
    IF w.lo >= k THEN W32(w.hi, w.lo - k)
    ELSE W32((w.hi + Two16 - 1) % Two16, w.lo + Two16 - k)

\* The low 16 bits of an int, as the conversion to uint16_t takes them.
ToU16(n) == n % Two16

(***************************************************************************)
(* float32_to_float16, lines 34-54.                                        *)
(***************************************************************************)
\* As f2h_exponent, rebiased by one too many.
f2h_exponent_bias16(bits) == And32(Shr32(bits, 23), U32(\HFF)).lo - 127 + 16

\* exponent = ((bits >> 23) & 0xFF) - 127 + 15: an int in -112..143, which
\* the int16_t it is stored in holds without change.
f2h_exponent(bits) == And32(Shr32(bits, 23), U32(\HFF)).lo - 127 + 15

\* sign = (bits >> 16) & 0x8000
f2h_sign(bits) == And32(Shr32(bits, 16), U32(\H8000)).lo

\* As f2h_mantissa, rounding the dropped bits to nearest.
f2h_mantissa_rounded(bits) ==
    LET m == And32(Shr32(bits, 12), U32(\H7FF)).lo
    IN  ((m + 1) \div 2) % 1024

\* mantissa = (bits >> 13) & 0x3FF
f2h_mantissa(bits) == And32(Shr32(bits, 13), U32(\H3FF)).lo

\* As f2h_overflow, dropping the sign.
f2h_overflow_unsigned(sign) == \H7C00

\* return sign | 0x7C00
f2h_overflow(sign) == Or16(sign, \H7C00)

float32_to_float16(bits) ==
    LET sign     == f2h_sign(bits)
        exponent == f2h_exponent(bits)
        mantissa == f2h_mantissa(bits)
    IN  IF exponent <= 0 THEN 0
        ELSE IF exponent >= 31 THEN f2h_overflow(sign)
        ELSE ToU16(Or16(Or16(sign, exponent * 1024), mantissa))

(***************************************************************************)
(* float16_to_float32, lines 56-75.                                        *)
(***************************************************************************)
\* As h2f_rebias, with the exponent pattern 11111 kept as all ones.
h2f_rebias_special(exponent) ==
    IF exponent = U32(31) THEN U32(\HFF) ELSE Add32(Sub32(exponent, 15), 127)

\* exponent = exponent - 15 + 127, in uint32_t arithmetic.
h2f_rebias(exponent) == Add32(Sub32(exponent, 15), 127)

\* As h2f_sign, shifted one place short.
h2f_sign_shift15(value) == Shl32(U32(And16(value, \H8000)), 15)

\* (value & 0x8000) << 16 is computed in int; the builds wrap it to bit 31.
h2f_sign(value) == Shl32(U32(And16(value, \H8000)), 16)

\* (value & 0x7FFF) == 0
h2f_is_zero(value) == And16(value, \H7FFF) = 0

float16_to_float32(value) ==
    IF h2f_is_zero(value) THEN W32(0, 0)
    ELSE LET sign     == h2f_sign(value)
             exponent == h2f_rebias(U32(And16(value \div 1024, \H1F)))
             mantissa == U32(And16(value, \H3FF))
         IN  Or32(Or32(sign, Shl32(exponent, 23)), Shl32(mantissa, 13))

(***************************************************************************)
(* The fields of a float32 bit pattern and of a half pattern, by           *)
(* arithmetic (used to state properties, not by the code).                 *)
(***************************************************************************)
F32Sign(w) == w.hi \div Two15
F32Exp(w)  == (w.hi \div 128) % 256
F32Man(w)  == (w.hi % 128) * Two16 + w.lo
F32Make(s, e, m) == W32(s * Two15 + e * 128 + m \div Two16, m % Two16)

H16Sign(h) == h \div Two15
H16Exp(h)  == (h \div 1024) % 32
H16Man(h)  == h % 1024

(***************************************************************************)
(* IEEE-754 binary32 arithmetic on bit patterns, as the hardware performs  *)
(* the float operations of lines 185-192 and 212 (round to nearest, ties   *)
(* to even).                                                               *)
(***************************************************************************)
Two23 == 128 * Two16
Two24 == 256 * Two16

F32IsNaN(w)  == F32Exp(w) = 255 /\ F32Man(w) # 0
F32IsInf(w)  == F32Exp(w) = 255 /\ F32Man(w) = 0
F32IsZero(w) == F32Exp(w) = 0 /\ F32Man(w) = 0
F32Inf(s)    == F32Make(s, 255, 0)
F32Zero(s)   == F32Make(s, 0, 0)
F32QNaN      == W32(\H7FC0, 0)

\* A finite float is Sig * 2^Pow: the 24-bit significand and its power.
F32Sig(w) == IF F32Exp(w) = 0 THEN F32Man(w) ELSE Two23 + F32Man(w)
F32Pow(w) == IF F32Exp(w) = 0 THEN 0 - 149 ELSE F32Exp(w) - 150

\* The number of bits of n, for 0 <= n < 2^31.
BitLen(n) ==
    IF n = 0 THEN 0
    ELSE CHOOSE k \in 1 .. 31 : Pow2(k - 1) <= n /\ (k = 31 \/ n < Pow2(k))

\* The float nearest to (q + a sticky fraction) * 2^pow with sign s, for
\* 0 < q < 2^31; sticky says that a non-zero part below q's last bit was
\* dropped.
F32RoundPack(s, q, pow, sticky) ==
    LET nb    == BitLen(q)
        e0    == pow + (nb - 24) + 150          \* exponent field if normal
        shift == IF e0 >= 1 THEN nb - 24 ELSE (0 - 149) - pow
        e1    == IF e0 >= 1 THEN e0 ELSE 0
    IN  IF shift > nb THEN F32Zero(s)
        ELSE IF shift <= 0
        THEN LET sig == q * Pow2(0 - shift)
             IN  IF e1 >= 255 THEN F32Inf(s)
                 ELSE IF e1 = 0 THEN F32Make(s, sig \div Two23, sig % Two23)
                 ELSE F32Make(s, e1, sig - Two23)
        ELSE LET unit == Pow2(shift)
                 sig0 == q \div unit
                 rem  == q % unit
                 half == unit \div 2
                 up   == \/ rem > half
                         \/ rem = half /\ sticky
                         \/ rem = half /\ sig0 % 2 = 1
                 sig  == IF up THEN sig0 + 1 ELSE sig0
                 \* a carry out of the significand moves to the next exponent
                 e2   == IF e1 = 0
                         THEN (IF sig >= Two23 THEN 1 ELSE 0)
                         ELSE (IF sig >= Two24 THEN e1 + 1 ELSE e1)
                 sig2 == IF e1 # 0 /\ sig >= Two24 THEN sig \div 2 ELSE sig
             IN  IF e2 >= 255 THEN F32Inf(s)
                 ELSE IF e2 = 0 THEN F32Make(s, 0, sig2)
                 ELSE F32Make(s, e2, sig2 - Two23)

\* (float)n for an int n with |n| < 2^24: exact.
I2F(n) ==
    IF n = 0 THEN F32Zero(0)
    ELSE F32RoundPack(IF n < 0 THEN 1 ELSE 0, IF n < 0 THEN 0 - n ELSE n, 0,
                      FALSE)

\* The next k <= 7 bits of the quotient of a long division by d < 2^24:
\* from <<acc, rem>> with rem < d to <<acc * 2^k + bits, the new remainder>>.
LongDivStep(st, d, k) ==
    << st[1] * Pow2(k) + (st[2] * Pow2(k)) \div d, (st[2] * Pow2(k)) % d >>

\* 26 bits of the quotient rem / d (rem < d), appended to acc, kept with
\* the final remainder.
LongDiv26(rem, d, acc) ==
    LongDivStep(LongDivStep(LongDivStep(LongDivStep(<<acc, rem>>, d, 7), d, 7),
                            d, 6), d, 6)

\* A significand shifted up to 24 bits, with the power that goes with it.
Normalize(sig, pow) ==
    LET up == 24 - BitLen(sig)
    IN  <<sig * Pow2(up), pow - up>>

\* a / b in float.
FDiv(a, b) ==
    LET s == (F32Sign(a) + F32Sign(b)) % 2
    IN  IF F32IsNaN(a) \/ F32IsNaN(b) THEN F32QNaN
        ELSE IF F32IsInf(a) THEN (IF F32IsInf(b) THEN F32QNaN ELSE F32Inf(s))
        ELSE IF F32IsInf(b) THEN F32Zero(s)
        ELSE IF F32IsZero(b) THEN (IF F32IsZero(a) THEN F32QNaN ELSE F32Inf(s))
        ELSE IF F32IsZero(a) THEN F32Zero(s)
        ELSE LET na == Normalize(F32Sig(a), F32Pow(a))
                 nb == Normalize(F32Sig(b), F32Pow(b))
                 \* the integer part of na/nb is 0 or 1; 26 more bits follow
                 int == IF na[1] >= nb[1] THEN 1 ELSE 0
                 fr  == LongDiv26(na[1] - int * nb[1], nb[1], int)
             IN  F32RoundPack(s, fr[1], na[2] - nb[2] - 26, fr[2] # 0)

\* (float)n * b in float, for an int n with |n| <= 128.
I2FMul(n, b) ==
    LET s   == ((IF n < 0 THEN 1 ELSE 0) + F32Sign(b)) % 2
        mag == IF n < 0 THEN 0 - n ELSE n
    IN  IF F32IsNaN(b) THEN F32QNaN
        ELSE IF F32IsInf(b) THEN (IF n = 0 THEN F32QNaN ELSE F32Inf(s))
        ELSE IF n = 0 \/ F32IsZero(b) THEN F32Zero(s)
        ELSE F32RoundPack(s, mag * F32Sig(b), F32Pow(b), FALSE)

\* a < b and a > b on floats: false when either is a NaN; -0 equals +0.
F32MagLt(a, b) ==
    \/ a.hi % Two15 < b.hi % Two15
    \/ a.hi % Two15 = b.hi % Two15 /\ a.lo < b.lo
FLt(a, b) ==
    /\ ~F32IsNaN(a) /\ ~F32IsNaN(b)
    /\ ~(F32IsZero(a) /\ F32IsZero(b))
    /\ IF F32Sign(a) # F32Sign(b) THEN F32Sign(a) = 1
       ELSE IF F32Sign(a) = 0 THEN F32MagLt(a, b) ELSE F32MagLt(b, a)
FGt(a, b) == FLt(b, a)

(***************************************************************************)
(* Tensors, lines 9-28: the type tag, the shape and the element buffer     *)
(* (a function on 0 .. rows*cols - 1).                                     *)
(***************************************************************************)
TENSOR_FLOAT32 == "TENSOR_FLOAT32"
TENSOR_FLOAT16 == "TENSOR_FLOAT16"
TENSOR_INT8    == "TENSOR_INT8"
TensorType == {TENSOR_FLOAT32, TENSOR_FLOAT16, TENSOR_INT8}

Tensor(type, rows, cols, data) ==
    [type |-> type, rows |-> rows, cols |-> cols, data |-> data]

\* The elements of the three buffer kinds: a float is its bit pattern (a
\* 32-bit word), an int8_t and a uint16_t element carry their value.
I8(n)  == [i8 |-> n]
F16(h) == [f16 |-> h]

\* As tensor_total, forgetting the columns.
tensor_total_rows_only(t) == t.rows

\* total = rows * cols, the uint16_t operands promoted to int.
tensor_total(t) == t.rows * t.cols

(***************************************************************************)
(* quantize_float32_to_int8, lines 172-194.                                *)
(***************************************************************************)
\* The results a build can give for (int8_t)value when the conversion is
\* undefined (value is a NaN, or its integral part is outside int8_t).
UBInt8 == {0 - 128, 0, 127}

\* As float_to_int8, rounding to the nearest integer.
float_to_int8_nearest(value, ub) ==
    IF F32IsNaN(value) \/ F32IsInf(value) THEN ub
    ELSE LET e   == F32Exp(value)
             mag == IF e < 126 THEN 0
                    ELSE IF e >= 150 THEN 256
                    ELSE (F32Sig(value) \div Pow2(149 - e) + 1) \div 2
             n   == IF F32Sign(value) = 1 THEN 0 - mag ELSE mag
         IN  IF n < 0 - 128 \/ n > 127 THEN ub ELSE n

\* (int8_t)value: the integral part of value, toward zero.
float_to_int8(value, ub) ==
    IF F32IsNaN(value) \/ F32IsInf(value) THEN ub
    ELSE LET e   == F32Exp(value)
             mag == IF e < 127 THEN 0
                    ELSE IF e >= 150 THEN 256      \* at least 2^23
                    ELSE F32Sig(value) \div Pow2(150 - e)
             n   == IF F32Sign(value) = 1 THEN 0 - mag ELSE mag
         IN  IF n < 0 - 128 \/ n > 127 THEN ub ELSE n

\* if (value > 127) value = 127;  if (value < -128) value = -128;
quantize_clamp(value) ==
    LET v1 == IF FGt(value, I2F(127)) THEN I2F(127) ELSE value
    IN  IF FLt(v1, I2F(0 - 128)) THEN I2F(0 - 128) ELSE v1

\* One pass of the loop body, lines 185-192.
quantize_element(x, sc, ub) ==
    float_to_int8(quantize_clamp(FDiv(x, sc)), ub)

RECURSIVE quantize_loop(_, _, _, _, _, _)
quantize_loop(srcData, dstData, sc, total, i, ub) ==
    IF i >= total THEN dstData
    ELSE quantize_loop(srcData,
                       [dstData EXCEPT ![i] = I8(quantize_element(srcData[i], sc, ub))],
                       sc, total, i + 1, ub)

\* As quantize_type_ok, checking the source alone.
quantize_type_ok_src_only(src, dst) == ~(src.type # TENSOR_FLOAT32)

\* The negation of line 178's condition.
quantize_type_ok(src, dst) ==
    ~(src.type # TENSOR_FLOAT32 \/ dst.type # TENSOR_INT8)

\* The call, as the pair of tensors it leaves behind.
quantize_float32_to_int8(src, dst, sc, ub) ==
    IF ~quantize_type_ok(src, dst) THEN [src |-> src, dst |-> dst]
    ELSE [src |-> src,
          dst |-> [dst EXCEPT !.data =
                       quantize_loop(src.data, dst.data, sc,
                                     tensor_total(src), 0, ub)]]

(***************************************************************************)
(* dequantize_int8_to_float32, lines 200-214.                              *)
(***************************************************************************)
\* src->data.i8[i] * scale, line 212.
dequantize_element(q, sc) == I2FMul(q, sc)

RECURSIVE dequantize_loop(_, _, _, _, _)
dequantize_loop(srcData, dstData, sc, total, i) ==
    IF i >= total THEN dstData
    ELSE dequantize_loop(srcData,
                         [dstData EXCEPT ![i] = dequantize_element(srcData[i].i8, sc)],
                         sc, total, i + 1)

\* The negation of line 205's condition.
dequantize_type_ok(src, dst) ==
    ~(src.type # TENSOR_INT8 \/ dst.type # TENSOR_FLOAT32)

dequantize_int8_to_float32(src, dst, sc) ==
    IF ~dequantize_type_ok(src, dst) THEN [src |-> src, dst |-> dst]
    ELSE [src |-> src,
          dst |-> [dst EXCEPT !.data =
                       dequantize_loop(src.data, dst.data, sc,
                                       tensor_total(src), 0)]]

(***************************************************************************)
(* create_tensor, lines 81-112, and free_tensor, lines 118-139.            *)
(* A pointer is a block number, or NULL.  A handle is what create_tensor   *)
(* returned: the pointer, and the struct it points to when it is not NULL. *)
(***************************************************************************)
NULL == 0

MaxDim     == 2      \* rows and cols range over 0 .. MaxDim
MaxTensors == 2      \* create_tensor calls whose handles are live at once
MaxBlocks  == 4      \* blocks the heap can hand out

Blocks == 1 .. MaxBlocks

\* What malloc can return with the heap as it is: NULL, or a block not in use.
malloc_results(hp) ==
    {NULL} \cup (IF Blocks \ hp = {} THEN {}
                 ELSE {CHOOSE b \in Blocks \ hp : \A c \in Blocks \ hp : b <= c})

Handle(t, type, rows, cols, d) ==
    [ptr |-> t, type |-> type, rows |-> rows, cols |-> cols, data |-> d]

\* return NULL, line 88.
NullHandle == Handle(NULL, "none", 0, 0, NULL)

\* What create_tensor returns once the struct is allocated at block t and
\* the buffer's malloc has returned d: lines 90-111.
create_tensor_result(t, rows, cols, type, d) == Handle(t, type, rows, cols, d)

\* The heap after create_tensor_result.
create_tensor_heap(hp, t, d) ==
    (hp \cup {t}) \cup (IF d = NULL THEN {} ELSE {d})

\* create_tensor with the first malloc failing: lines 86-88.
CreateTensorNoStruct ==
    /\ Len(handles) < MaxTensors
    /\ NULL \in malloc_results(heap)
    /\ handles' = Append(handles, NullHandle)
    /\ UNCHANGED <<heap, codecVars, quantVars>>

\* create_tensor with the struct allocated; the buffer's malloc may fail.
CreateTensorStruct ==
    /\ Len(handles) < MaxTensors
    /\ \E rows \in 0 .. MaxDim, cols \in 0 .. MaxDim, type \in TensorType :
       \E t \in malloc_results(heap) \ {NULL} :
       \E d \in malloc_results(heap \cup {t}) :
          /\ handles' = Append(handles, create_tensor_result(t, rows, cols, type, d))
          /\ heap' = create_tensor_heap(heap, t, d)
    /\ UNCHANGED <<codecVars, quantVars>>

\* free_tensor(NULL) returns at once; otherwise the buffer (free(NULL) does
\* nothing) and the struct are freed.
free_tensor(hp, t) ==
    IF t.ptr = NULL THEN hp ELSE (hp \ {t.data}) \ {t.ptr}

\* free_tensor on the handle created last, which the caller then drops.
FreeTensor ==
    /\ handles # <<>>
    /\ heap' = free_tensor(heap, handles[Len(handles)])
    /\ handles' = SubSeq(handles, 1, Len(handles) - 1)
    /\ UNCHANGED <<codecVars, quantVars>>

(***************************************************************************)
(* The codec harness: a value of one width is converted to the other,      *)
(* and the result may be converted back.                                   *)
(***************************************************************************)
ExpSpread == 1       \* float32 exponent fields this close to each boundary
ManSpread == 1       \* mantissa field parts this close to all-0 and all-1
MaxCalls  == 2       \* codec calls in a row

Near(k, d, top) == {x \in (k - d) .. (k + d) : 0 <= x /\ x <= top}

\* Exponent fields around zero, the half-precision normal range 113..142,
\* the bias, and the top.
ExpSamples == Near(0, ExpSpread, 255) \cup Near(112, ExpSpread + 1, 255)
              \cup Near(127, ExpSpread, 255) \cup Near(143, ExpSpread + 1, 255)
              \cup Near(255, ExpSpread, 255)

\* The 10 bits the half keeps and the 13 bits it drops.
Man10Samples == Near(0, ManSpread, 1023) \cup {512} \cup Near(1023, ManSpread, 1023)
Man13Samples == Near(0, ManSpread, 8191) \cup {4096} \cup Near(8191, ManSpread, 8191)

F32Samples ==
    {F32Make(s, e, m10 * 8192 + m13) :
        s \in {0, 1}, e \in ExpSamples, m10 \in Man10Samples, m13 \in Man13Samples}

H16All == 0 .. (Two16 - 1)

Last(seq) == seq[Len(seq)]


Encode ==
    /\ ctrace # <<>> /\ Len(ctrace) <= MaxCalls
    /\ Last(ctrace) \in {"f32", "dec"}
    /\ hval' = float32_to_float16(fval)
    /\ ctrace' = Append(ctrace, "enc")
    /\ UNCHANGED <<f0, h0, fval, quantVars, allocVars>>

Decode ==
    /\ ctrace # <<>> /\ Len(ctrace) <= MaxCalls
    /\ Last(ctrace) \in {"f16", "enc"}
    /\ fval' = float16_to_float32(hval)
    /\ ctrace' = Append(ctrace, "dec")
    /\ UNCHANGED <<f0, h0, hval, quantVars, allocVars>>

(***************************************************************************)
(* The quantizer run of main, lines 240-257, with the tensors' types,      *)
(* shape, contents and the scale left open.                                *)
(***************************************************************************)
\* float32 values: main's four, the two of the clamp, zeros, values between
\* steps, the non-finite ones, a subnormal and a huge one.
QSamples ==
    << W32(\H3F00, \H0000),    \*  0.5
       W32(\HBF99, \H999A),    \* -1.2
       W32(\H4059, \H999A),    \*  3.4
       W32(\H4006, \H6666),    \*  2.1
       W32(\H414C, \HCCCD),    \*  12.8
       W32(\HC150, \H0000),    \* -13.0
       W32(\H0000, \H0000),    \*  0.0
       W32(\H3E42, \H8F5C),    \*  0.19
       W32(\H7FC0, \H0000),    \*  NaN
       W32(\H8000, \H0000),    \* -0.0
       W32(\H7F80, \H0000),    \* +infinity
       W32(\H414C, \H0000),    \*  12.75
       W32(\HFF80, \H0000),    \* -infinity
       W32(\HBD4C, \HCCCD),    \* -0.05
       W32(\H0001, \H16C2),    \*  1e-40 (subnormal)
       W32(\H7F61, \HB1E6),    \*  3e38
       W32(\HC14D, \H999A) >>  \* -12.85

I8Samples  == << 5, 0 - 12, 34, 21, 0 - 128, 127, 0, 0 - 1, 100, 20, 64, 0 - 77 >>
F16Samples == << \H3C00, \H0000, \H8000, \H7C00, \HC000, \H0001, \H7BFF >>

Scale01 == W32(\H3DCC, \HCCCD)     \* 0.1f, main's scale
Scales ==
    { Scale01,
      W32(\H3F00, \H0000),         \*  0.5
      W32(\H3F80, \H0000),         \*  1.0
      W32(\HBF00, \H0000),         \* -0.5
      W32(\H0000, \H0000) }        \*  0.0

Pick(seq, k) == seq[(k % Len(seq)) + 1]

\* A tensor of the given type and shape whose buffer holds a run of the
\* samples of its element type, starting at the start-th.
SampleTensor(type, rows, cols, start) ==
    Tensor(type, rows, cols,
           [i \in 0 .. (rows * cols - 1) |->
               IF type = TENSOR_FLOAT32 THEN Pick(QSamples, start + i)
               ELSE IF type = TENSOR_INT8 THEN I8(Pick(I8Samples, start + i))
               ELSE F16(Pick(F16Samples, start + i))])

\* quantize_float32_to_int8(input, quantized, scale), line 251.
Quantize ==
    /\ qpc = "created"
    /\ \E ub \in UBInt8 :
         LET r == quantize_float32_to_int8(input, quantized, scale, ub)
         IN  input' = r.src /\ quantized' = r.dst
    /\ qpc' = "quantized"
    /\ UNCHANGED <<dequantized, scale, codecVars, allocVars>>

\* dequantize_int8_to_float32(quantized, dequantized, scale), line 257.
Dequantize ==
    /\ qpc = "quantized"
    /\ LET r == dequantize_int8_to_float32(quantized, dequantized, scale)
       IN  quantized' = r.src /\ dequantized' = r.dst
    /\ qpc' = "dequantized"
    /\ UNCHANGED <<input, scale, codecVars, allocVars>>

(***************************************************************************)
(* Specifications: one per component; the components share no state, and   *)
(* each specification leaves the other components' variables at rest.      *)
(***************************************************************************)
NoTensor == Tensor("none", 0, 0, <<>>)

\* The harness starts from a float32 sample or from any uint16_t pattern.
InitCodec ==
    /\ \/ /\ f0 \in F32Samples /\ fval = f0
          /\ h0 = 0 /\ hval = 0
          /\ ctrace = <<"f32">>
       \/ /\ h0 \in H16All /\ hval = h0
          /\ f0 = W32(0, 0) /\ fval = W32(0, 0)
          /\ ctrace = <<"f16">>
    /\ input = NoTensor /\ quantized = NoTensor /\ dequantized = NoTensor
    /\ scale = W32(0, 0) /\ qpc = "idle"
    /\ heap = {} /\ handles = <<>>

NextCodec == Encode \/ Decode
SpecCodec == InitCodec /\ [][NextCodec]_vars

\* The three tensors of main share a shape; source and destination buffers
\* are distinct and equally long.
InitQuant ==
    /\ \E ti \in TensorType, tq \in TensorType, td \in TensorType,
          rows \in 0 .. MaxDim, cols \in 1 .. MaxDim,
          start \in 0 .. (Len(QSamples) - 1) :
          /\ input = SampleTensor(ti, rows, cols, start)
          /\ quantized = SampleTensor(tq, rows, cols, start + 4)
          /\ dequantized = SampleTensor(td, rows, cols, start + 7)
    /\ scale \in Scales
    /\ qpc = "created"
    /\ f0 = W32(0, 0) /\ h0 = 0 /\ fval = W32(0, 0) /\ hval = 0
    /\ ctrace = <<>>
    /\ heap = {} /\ handles = <<>>

NextQuant == Quantize \/ Dequantize
SpecQuant == InitQuant /\ [][NextQuant]_vars

InitAlloc ==
    /\ heap = {} /\ handles = <<>>
    /\ f0 = W32(0, 0) /\ h0 = 0 /\ fval = W32(0, 0) /\ hval = 0
    /\ ctrace = <<>>
    /\ input = NoTensor /\ quantized = NoTensor /\ dequantized = NoTensor
    /\ scale = W32(0, 0) /\ qpc = "idle"

NextAlloc == CreateTensorNoStruct \/ CreateTensorStruct \/ FreeTensor
SpecAlloc == InitAlloc /\ [][NextAlloc]_vars

Init == InitCodec
Next == NextCodec
Spec == SpecCodec

(***************************************************************************)
(* Properties.                                                             *)
(***************************************************************************)
EncodedOnce  == ctrace = <<"f32", "enc">>
DecodedOnce  == ctrace = <<"f16", "dec">>
EncodedBack  == ctrace = <<"f32", "enc", "dec">>
DecodedBack  == ctrace = <<"f16", "dec", "enc">>

\* C1: float32_to_float16(b), with new_exp = ((b >> 23) & 0xFF) - 127 + 15,
\* is 0 when new_exp <= 0, sign | 0x7C00 when new_exp >= 31, and otherwise
\* sign | (new_exp << 10) | ((b >> 13) & 0x3FF): the low 13 mantissa bits
\* are dropped without rounding.
C1_EncodeByCases ==
    EncodedOnce =>
        LET new_exp == F32Exp(f0) - 127 + 15
            sign    == F32Sign(f0) * Two15
        IN  hval = IF new_exp <= 0 THEN 0
                   ELSE IF new_exp >= 31 THEN sign + \H7C00
                   ELSE sign + new_exp * 1024 + F32Man(f0) \div 8192

\* A negative normal-range value whose 13 dropped bits are all ones, and
\* whose kept bits would carry if rounded, has been encoded.
C1_Witness ==
    /\ EncodedOnce
    /\ F32Sign(f0) = 1 /\ F32Exp(f0) = 142 /\ F32Man(f0) % 8192 = 8191
    /\ hval = \HF800 + (F32Man(f0) \div 8192)

\* C2: float16_to_float32(h) is +0.0 when (h & 0x7FFF) = 0, and otherwise
\* the float with bits sign << 16 | (exp - 15 + 127) << 23 | mant << 13;
\* exponent pattern 11111 decodes to exponent field 143, a finite float.
C2_DecodeByCases ==
    DecodedOnce =>
        /\ fval = IF h0 % Two15 = 0 THEN W32(0, 0)
                  ELSE F32Make(H16Sign(h0), H16Exp(h0) - 15 + 127,
                               H16Man(h0) * 8192)
        /\ H16Exp(h0) = 31 =>
              /\ F32Exp(fval) = 143
              /\ ~F32IsNaN(fval) /\ ~F32IsInf(fval)

\* The half infinity and negative zero have been decoded.
C2_Witness ==
    /\ DecodedOnce
    /\ \/ h0 = \HFC00 /\ fval = W32(\HC780, 0)
       \/ h0 = \H8000 /\ fval = W32(0, 0)

\* C4: for x with float32 exponent field in 113..142, decoding the encoding
\* of x gives x's bits with the low 13 mantissa bits cleared: same sign,
\* same exponent, relative error below 2^-10.
C4_RoundTripNormal ==
    (EncodedBack /\ F32Exp(f0) \in 113 .. 142) =>
        /\ F32Sign(fval) = F32Sign(f0)
        /\ F32Exp(fval) = F32Exp(f0)
        /\ fval = F32Make(F32Sign(f0), F32Exp(f0), (F32Man(f0) \div 8192) * 8192)
        \* |x - y| / |x| < 2^-10, on the significands of the common exponent
        /\ F32Man(f0) >= F32Man(fval)
        /\ (F32Man(f0) - F32Man(fval)) * 1024 < Two23 + F32Man(f0)

\* A value at each end of the normal range has made the round trip and lost
\* its low bits.
C4_Witness ==
    /\ EncodedBack
    /\ F32Exp(f0) \in {113, 142}
    /\ F32Man(f0) % 8192 # 0
    /\ fval # f0

Mag65504 == W32(\H477F, \HE000)
Mag65536 == W32(\H4780, \H0000)

\* C6 as stated: every x with |x| > 65504 (infinities included) encodes to
\* exponent field 11111, mantissa 0, with x's sign.
C6_SaturationAbove65504 ==
    (EncodedOnce /\ ~F32IsNaN(f0) /\ F32MagLt(Mag65504, f0)) =>
        hval = F32Sign(f0) * Two15 + \H7C00

\* C6, amended: every x with |x| >= 65536 (infinities included) encodes to
\* sign | 0x7C00; an x with 65504 < |x| < 65536 encodes to sign | 0x7BFF.
C6_SaturationFrom65536 ==
    (EncodedOnce /\ ~F32IsNaN(f0)) =>
        /\ ~F32MagLt(f0, Mag65536) => hval = F32Sign(f0) * Two15 + \H7C00
        /\ (F32MagLt(Mag65504, f0) /\ F32MagLt(f0, Mag65536)) =>
               hval = F32Sign(f0) * Two15 + \H7BFF

\* A negative value of magnitude at least 65536 has been encoded.
C6_Witness ==
    /\ EncodedOnce
    /\ F32Sign(f0) = 1 /\ F32Exp(f0) = 143
    /\ hval = \HFC00

\* C10: encoding the decoding of h gives h back exactly when h's exponent
\* field is in 1..30 or h is 0x0000, 0x7C00 or 0xFC00; exponent-0 patterns
\* (subnormals, 0x8000) come back as 0 and exponent-31 patterns as
\* sign | 0x7C00.
C10_HalfRoundTrip ==
    DecodedBack =>
        /\ (hval = h0) <=> (H16Exp(h0) \in 1 .. 30 \/ h0 \in {0, \H7C00, \HFC00})
        /\ H16Exp(h0) = 0 => hval = 0
        /\ H16Exp(h0) = 31 => hval = H16Sign(h0) * Two15 + \H7C00

\* A negative half subnormal has come back as 0.
C10_Witness ==
    /\ DecodedBack
    /\ H16Sign(h0) = 1 /\ H16Exp(h0) = 0 /\ H16Man(h0) # 0
    /\ hval = 0

QuantizeRan ==
    /\ qpc \in {"quantized", "dequantized"}
    /\ input.type = TENSOR_FLOAT32 /\ quantized.type = TENSOR_INT8

DequantizeRan ==
    /\ qpc = "dequantized"
    /\ quantized.type = TENSOR_INT8 /\ dequantized.type = TENSOR_FLOAT32

ScaleFiniteNonZero == F32Exp(scale) # 255 /\ ~F32IsZero(scale)
ScalePositive      == ScaleFiniteNonZero /\ F32Sign(scale) = 0

\* n is the float v with its fraction dropped (toward zero).
IsTruncation(v, n) ==
    IF F32Sign(v) = 0
    THEN n >= 0 /\ ~FLt(v, I2F(n)) /\ FLt(v, I2F(n + 1))
    ELSE n <= 0 /\ ~FGt(v, I2F(n)) /\ FGt(v, I2F(n - 1))

\* C3: with a finite non-zero scale, dst[i] is src[i] / scale clamped to
\* [-128, 127] and then truncated toward zero: every stored value is in
\* [-128, 127], a quotient above 127 gives 127, one below -128 gives -128.
C3_QuantizeClampThenTruncate ==
    (QuantizeRan /\ ScaleFiniteNonZero) =>
        \A i \in DOMAIN input.data :
            LET v == FDiv(input.data[i], scale)
                n == quantized.data[i].i8
            IN  /\ n \in (0 - 128) .. 127
                /\ FGt(v, I2F(127)) => n = 127
                /\ FLt(v, I2F(0 - 128)) => n = 0 - 128
                /\ (~F32IsNaN(v) /\ ~FGt(v, I2F(127)) /\ ~FLt(v, I2F(0 - 128)))
                       => IsTruncation(v, n)

\* Quotients 128 and -130 have been stored as 127 and -128, and a quotient
\* with a fraction above one half has lost it.
C3_Witness ==
    /\ qpc = "quantized" /\ QuantizeRan /\ ScaleFiniteNonZero
    /\ \E i, j, k \in DOMAIN input.data :
          /\ FDiv(input.data[i], scale) = I2F(128) /\ quantized.data[i].i8 = 127
          /\ FDiv(input.data[j], scale) = I2F(0 - 130)
          /\ quantized.data[j].i8 = 0 - 128
          /\ FGt(FDiv(input.data[k], scale), I2F(20))
          /\ quantized.data[k].i8 = 20

\* A float as an integer count of 2^-27 (the last place of 0.1f), when it
\* is one below 2^30.
Fixable(w) ==
    /\ F32Exp(w) # 255
    /\ \/ F32IsZero(w)
       \/ F32Pow(w) + 27 >= 0 /\ BitLen(F32Sig(w)) + F32Pow(w) + 27 <= 30
Fix(w) ==
    IF F32IsZero(w) THEN 0
    ELSE (IF F32Sign(w) = 1 THEN 0 - 1 ELSE 1) * F32Sig(w) * Pow2(F32Pow(w) + 27)
Abs(n) == IF n < 0 THEN 0 - n ELSE n

Unsaturated(v) ==
    ~F32IsNaN(v) /\ ~FGt(v, I2F(127)) /\ ~FLt(v, I2F(0 - 128))

Demo == << W32(\H3F00, \H0000), W32(\HBF99, \H999A),
           W32(\H4059, \H999A), W32(\H4006, \H6666) >>
DemoQuantized == << 5, 0 - 12, 34, 21 >>

\* C5 as stated: with a positive scale s and x / s not saturated,
\* dequantize(quantize(x, s), s) is within s/2 of x; and [0.5, -1.2, 3.4,
\* 2.1] with scale 0.1 quantizes to [5, -12, 34, 21], which dequantizes to
\* [0.5, -1.2, 3.4, 2.1].
C5_RoundTripWithinHalfStep ==
    (QuantizeRan /\ DequantizeRan /\ ScalePositive) =>
        /\ \A i \in DOMAIN input.data :
              ( /\ Unsaturated(FDiv(input.data[i], scale))
                /\ Fixable(input.data[i]) /\ Fixable(dequantized.data[i])
                /\ Fixable(scale) )
              => Abs(Fix(dequantized.data[i]) - Fix(input.data[i]))
                     <= Fix(scale) \div 2
        /\ ( /\ scale = Scale01
             /\ DOMAIN input.data = 0 .. 3
             /\ \A i \in 0 .. 3 : input.data[i] = Demo[i + 1] )
           => \A i \in 0 .. 3 :
                 /\ quantized.data[i].i8 = DemoQuantized[i + 1]
                 /\ dequantized.data[i] = Demo[i + 1]

TypeRowsCols(t) == <<t.type, t.rows, t.cols>>

QuantizeStep   == qpc = "created" /\ qpc' = "quantized"
DequantizeStep == qpc = "quantized" /\ qpc' = "dequantized"

\* C7: on a type-correct pair of n = rows * cols elements each, quantize and
\* dequantize write exactly dst[0 .. n-1], dst[i] from src[i] and the scale
\* alone, and change nothing else: not the source buffer, nor the type,
\* rows or cols of either tensor.
C7_WritesOnlyDestination ==
    [][ /\ ( QuantizeStep /\ input.type = TENSOR_FLOAT32
                          /\ quantized.type = TENSOR_INT8 )
           => /\ input' = input
              /\ dequantized' = dequantized /\ scale' = scale
              /\ TypeRowsCols(quantized') = TypeRowsCols(quantized)
              /\ DOMAIN quantized'.data = 0 .. (input.rows * input.cols - 1)
              /\ \E ub \in UBInt8 : \A i \in DOMAIN input.data :
                    quantized'.data[i]
                        = I8(float_to_int8(quantize_clamp(FDiv(input.data[i], scale)), ub))
              /\ \A i, j \in DOMAIN input.data :
                    input.data[i] = input.data[j]
                        => quantized'.data[i] = quantized'.data[j]
        /\ ( DequantizeStep /\ quantized.type = TENSOR_INT8
                            /\ dequantized.type = TENSOR_FLOAT32 )
           => /\ quantized' = quantized
              /\ input' = input /\ scale' = scale
              /\ TypeRowsCols(dequantized') = TypeRowsCols(dequantized)
              /\ DOMAIN dequantized'.data = 0 .. (quantized.rows * quantized.cols - 1)
              /\ \A i \in DOMAIN quantized.data :
                    dequantized'.data[i] = I2FMul(quantized.data[i].i8, scale)
      ]_vars

\* Both calls have run on type-correct tensors of the largest shape, and the
\* last element of each destination was written.
C7_Witness ==
    /\ QuantizeRan /\ DequantizeRan
    /\ input.rows = MaxDim /\ input.cols = MaxDim
    /\ LET last == MaxDim * MaxDim - 1
       IN  /\ quantized.data[last] # I8(Pick(I8Samples, last))
           /\ dequantized.data[last] = I2FMul(quantized.data[last].i8, scale)
           /\ quantized.data[last].i8 # 0

\* C9: when the type tags do not match the operation, the call returns
\* having changed nothing: every element and every field of both tensors
\* is as before, and the caller goes on.
C9_TypeMismatchChangesNothing ==
    [][ /\ ( QuantizeStep /\ ( input.type # TENSOR_FLOAT32
                               \/ quantized.type # TENSOR_INT8 ) )
           => <<input, quantized, dequantized, scale>>'
                  = <<input, quantized, dequantized, scale>>
        /\ ( DequantizeStep /\ ( quantized.type # TENSOR_INT8
                                 \/ dequantized.type # TENSOR_FLOAT32 ) )
           => <<input, quantized, dequantized, scale>>'
                  = <<input, quantized, dequantized, scale>>
      ]_vars

\* Both calls have returned on a mismatch (a FLOAT32 source with a FLOAT16
\* destination, then a FLOAT16 source), with non-empty buffers.
C9_Witness ==
    /\ qpc = "dequantized"
    /\ input.type = TENSOR_FLOAT32 /\ quantized.type = TENSOR_FLOAT16
    /\ dequantized.type = TENSOR_FLOAT32
    /\ input.rows * input.cols > 0

\* C8: whenever an allocation inside create_tensor fails, create_tensor
\* returns NULL: no handle it returns has a NULL data buffer.
C8_AllocationFailureSignalled ==
    \A k \in 1 .. Len(handles) :
        handles[k].ptr # NULL => handles[k].data # NULL
=============================================================================
